---- MODULE Spec2Model ----
(***************************************************************************)
(* Model of src/plugins/image/main/ts/core/ImageData.ts: the translation   *)
(* between an <img> element (with its optional <figure> wrapper) and the   *)
(* flat ImageData record.                                                  *)
(*                                                                         *)
(* Representation of the DOM                                               *)
(*   - an attribute is a record [has, v]; has = FALSE is an absent         *)
(*     attribute (getAttribute gives null, hasAttribute gives false);      *)
(*   - a class string is the sequence of its whitespace separated tokens,  *)
(*     and a token is the sequence of its '-' separated parts, so that     *)
(*     'img-left' is <<"img", "left">> and 'img-' + v is <<"img", v>>;     *)
(*   - a CSS text is [form, p]: p maps every style property to its value   *)
(*     ("" when the text does not declare it) and form tells whether the   *)
(*     text is written the way the normalizer writes it ("norm") or in     *)
(*     some other way ("raw", e.g. what a browser serialises or a user     *)
(*     typed); two texts are the same string iff they are the same pair;   *)
(*   - a node is [kind, n]; the image is one node, figures and captions    *)
(*     are numbered as they are created.                                   *)
(***************************************************************************)
EXTENDS Naturals, Sequences, FiniteSets, TLC

VARIABLES
    dom,     \* the image element, its wrapper and the children of the container
    prev,    \* the DOM before the last operation (history)
    first,   \* the DOM before the first of two caption toggles (history)
    rec,     \* the record argument of the last operation (history)
    readData,  \* the record returned by the last read
    altValid,  \* the value returned by the last validateAlt
    created,   \* the node returned by the last create
    pc       \* the last operation

vars == <<dom, prev, first, rec, readData, altValid, created, pc>>

(***************************************************************************)
(* JavaScript values                                                       *)
(***************************************************************************)
\* the result of a function that falls off its end; 'x-' + undefined is 'x-undefined'
Undefined == "undefined"
\* the null literal
Null == "null"

\* String(b) of a boolean, as setAttribute stores it
boolString(b) == IF b THEN "true" ELSE "false"

(***************************************************************************)
(* Bounds of the model                                                     *)
(***************************************************************************)
\* siblings of the image (or of its figure) on either side, in the container
MaxSiblings == 1

(***************************************************************************)
(* Strings with a unit: Utils.addPixelSuffix / Utils.removePixelSuffix     *)
(***************************************************************************)
\* <<digits, digits + 'px'>> for the numbers of the model
PxPairs == { <<"1", "1px">>, <<"10", "10px">>, <<"50", "50px">>, <<"100", "100px">> }

\* appends 'px' to a string of digits and leaves any other string alone
addPixelSuffix(value) ==
    IF \E q \in PxPairs : q[1] = value
    THEN (CHOOSE q \in PxPairs : q[1] = value)[2]
    ELSE value

\* strips a trailing 'px'
removePixelSuffix(value) ==
    IF \E q \in PxPairs : q[2] = value
    THEN (CHOOSE q \in PxPairs : q[2] = value)[1]
    ELSE value

(***************************************************************************)
(* CSS texts and the caller's normalizer                                   *)
(***************************************************************************)
StyleProps == { "float", "marginLeft", "marginRight", "marginTop", "marginBottom",
                "borderWidth", "borderStyle", "display", "width", "height" }

NoProps == [k \in StyleProps |-> ""]

\* the empty string as a CSS text
EmptyCss == [form |-> "norm", p |-> NoProps]

cssLength(css) == IF css.p = NoProps THEN 0 ELSE 1

\* a CSS text written by the browser for the declarations p
serialize(p) == IF p = NoProps THEN EmptyCss ELSE [form |-> "raw", p |-> p]

\* CssNormalizer: rewrites a CSS text in its one normal form, keeping its
\* declarations; idempotent
normalizeCss(css) == IF css.p = NoProps THEN EmptyCss ELSE [form |-> "norm", p |-> css.p]

\* the property of image.style that a name used on image.style[...] denotes
styleKey(name) ==
    CASE name = "margin-left" -> "marginLeft"
      [] name = "margin-right" -> "marginRight"
      [] name = "cssFloat" -> "float"
      [] OTHER -> name

(***************************************************************************)
(* DOM primitives on the image element                                     *)
(***************************************************************************)
AttrNames == { "src", "data-obvius-src", "alt", "decorative", "title", "width",
               "height", "data-mce-style" }

NoAttr == [has |-> FALSE, v |-> ""]
Attr(v) == [has |-> TRUE, v |-> v]
NoClass == [has |-> FALSE, v |-> <<>>]
NoStyle == [has |-> FALSE, css |-> EmptyCss]

ImgNode == [kind |-> "img", n |-> 0]
NoFigure == [id |-> [kind |-> "none", n |-> 0], cls |-> NoClass, kids |-> <<>>,
             parent |-> "none", contentEditable |-> ""]

\* image.style[name]
styleOf(image, name) == image.style.css.p[styleKey(name)]

\* image.style[name] = value; null and '' remove the declaration
setStyleProp(image, name, value) ==
    LET v == IF value = Null THEN "" ELSE value
        p == [image.style.css.p EXCEPT ![styleKey(name)] = v]
    IN  [image EXCEPT !.style = [has |-> TRUE, css |-> serialize(p)]]

\* image.className
className(elm) == IF elm.cls.has THEN elm.cls.v ELSE <<>>

\* classes.filter(keep)
RECURSIVE filterClasses(_, _)
filterClasses(classes, drop) ==
    IF classes = <<>> THEN <<>>
    ELSE LET rest == filterClasses(Tail(classes), drop)
         IN  IF Len(Head(classes)) >= 2 /\ Head(classes)[1] \in drop
             THEN rest
             ELSE <<Head(classes)>> \o rest

\* seq without the node x
RECURSIVE removeNode(_, _)
removeNode(seq, x) ==
    IF seq = <<>> THEN <<>>
    ELSE IF Head(seq) = x THEN removeNode(Tail(seq), x)
    ELSE <<Head(seq)>> \o removeNode(Tail(seq), x)

\* DOMUtils.insertAfter(node, reference) on the children of reference's parent:
\* node is taken out of where it was and put right after reference
RECURSIVE insertAfter(_, _, _)
insertAfter(seq, node, reference) ==
    IF seq = <<>> THEN <<>>
    ELSE IF Head(seq) = reference
         THEN <<reference, node>> \o removeNode(Tail(seq), node)
    ELSE IF Head(seq) = node THEN insertAfter(Tail(seq), node, reference)
    ELSE <<Head(seq)>> \o insertAfter(Tail(seq), node, reference)

(***************************************************************************)
(* Field accessors                                                         *)
(***************************************************************************)
getHspace(image) ==
    IF /\ styleOf(image, "marginLeft") # ""
       /\ styleOf(image, "marginRight") # ""
       /\ styleOf(image, "marginLeft") = styleOf(image, "marginRight")
    THEN removePixelSuffix(styleOf(image, "marginLeft"))
    ELSE ""

getVspace(image) ==
    IF /\ styleOf(image, "marginTop") # ""
       /\ styleOf(image, "marginBottom") # ""
       /\ styleOf(image, "marginTop") = styleOf(image, "marginBottom")
    THEN removePixelSuffix(styleOf(image, "marginTop"))
    ELSE ""

getBorder(image) ==
    IF styleOf(image, "borderWidth") # ""
    THEN removePixelSuffix(styleOf(image, "borderWidth"))
    ELSE ""

\* for the string attributes of AttrNames
getAttrib(image, name) == IF image.attrs[name].has THEN image.attrs[name].v ELSE ""

\* getAttrib(elm, 'class')
getClassAttrib(elm) == IF elm.cls.has THEN elm.cls.v ELSE <<>>

\* getAttrib(image, 'style')
getStyleAttrib(image) == IF image.style.has THEN image.style.css ELSE EmptyCss

getStyle(image, name) == IF styleOf(image, name) # "" THEN styleOf(image, name) ELSE ""

hasCaption(image) == image.parent = "figure"

isDecorative(image) == image.attrs["decorative"].has /\ image.attrs["decorative"].v = "true"

\* image.setAttribute(name, value): 'class' and 'style' are reflected by
\* className and image.style, a boolean value is stored as its string
setAttrib(image, name, value) ==
    CASE name = "class" -> [image EXCEPT !.cls = [has |-> TRUE, v |-> value]]
      [] name = "style" -> [image EXCEPT !.style = [has |-> TRUE, css |-> value]]
      [] name = "decorative" -> [image EXCEPT !.attrs[name] = Attr(boolString(value))]
      [] OTHER -> [image EXCEPT !.attrs[name] = Attr(value)]

(***************************************************************************)
(* Caption wrapper toggle                                                  *)
(***************************************************************************)
\* DOMUtils.insertAfter dereferences the parent of its reference node: with a
\* detached reference the call throws and the operation stops there
wrapInFigure(image) ==
    LET figureElm == [kind |-> "figure", n |-> image.nextId]
        caption == [kind |-> "figcaption", n |-> image.nextId]
    IN  IF image.parent = "none"
        THEN [image EXCEPT !.err = TRUE]
        ELSE [image EXCEPT
                !.body = removeNode(insertAfter(@, figureElm, ImgNode), ImgNode),
                !.parent = "figure",
                !.fig = [id |-> figureElm,
                         cls |-> [has |-> TRUE, v |-> << <<"image">> >>],
                         kids |-> <<ImgNode, caption>>,
                         parent |-> "body",
                         contentEditable |-> "false"],
                !.nextId = @ + 1]

\* removeFigure putting the image at the end of the container
removeFigureToEnd(image) ==
    IF image.fig.parent = "none"
    THEN [image EXCEPT !.err = TRUE]
    ELSE [image EXCEPT
            !.body = Append(removeNode(@, image.fig.id), ImgNode),
            !.parent = "body",
            !.fig = NoFigure]

removeFigure(image) ==
    LET figureElm == image.fig.id
    IN  IF image.fig.parent = "none"
        THEN [image EXCEPT !.err = TRUE]
        ELSE [image EXCEPT
                !.body = removeNode(insertAfter(@, ImgNode, figureElm), figureElm),
                !.parent = "body",
                !.fig = NoFigure]

toggleCaption(image) ==
    IF hasCaption(image) THEN removeFigure(image) ELSE wrapInFigure(image)

(***************************************************************************)
(* Style and size                                                          *)
(***************************************************************************)
normalizeStyle(image) ==
    LET attrValue == getStyleAttrib(image)
        value == normalizeCss(attrValue)
    IN  IF cssLength(value) > 0
        THEN setAttrib(setAttrib(image, "style", value), "data-mce-style", value)
        ELSE [image EXCEPT !.style = NoStyle]

setSize(image, name, value) ==
    IF styleOf(image, name) # ""
    THEN normalizeStyle(setStyleProp(image, name, addPixelSuffix(value)))
    ELSE setAttrib(image, name, value)

getSize(image, name) ==
    IF styleOf(image, name) # ""
    THEN removePixelSuffix(styleOf(image, name))
    ELSE getAttrib(image, name)

setHspace(image, value) ==
    LET pxValue == addPixelSuffix(value)
    IN  setStyleProp(setStyleProp(image, "marginLeft", pxValue), "marginRight", pxValue)

setVspace(image, value) ==
    LET pxValue == addPixelSuffix(value)
    IN  setStyleProp(setStyleProp(image, "marginTop", pxValue), "marginBottom", pxValue)

setBorder(image, value) ==
    LET pxValue == addPixelSuffix(value)
    IN  setStyleProp(image, "borderWidth", pxValue)

\* setBorderStyle writing the property that setBorder writes
setBorderStyleAsWidth(image, value) == setStyleProp(image, "borderWidth", value)

setBorderStyle(image, value) == setStyleProp(image, "borderStyle", value)

getBorderStyle(image) == getStyle(image, "borderStyle")

(***************************************************************************)
(* Alignment                                                               *)
(***************************************************************************)
\* the places <<k, i>> of figureClass where /\balign-(center|left|right)\b/ matches:
\* part i of token k is 'align' and the next part is one of the three words
alignMatches(figureClass) ==
    { m \in (1..Len(figureClass)) \X (1..3) :
        /\ m[2] < Len(figureClass[m[1]])
        /\ figureClass[m[1]][m[2]] = "align"
        /\ figureClass[m[1]][m[2] + 1] \in {"center", "left", "right"} }

\* the leftmost match
firstMatch(ms) ==
    CHOOSE m \in ms : \A o \in ms : m[1] < o[1] \/ (m[1] = o[1] /\ m[2] <= o[2])

getAlignment(image) ==
    IF hasCaption(image)
    THEN LET figureClass == getClassAttrib(image.fig)
             match == alignMatches(figureClass)
         IN  IF match # {}
             THEN figureClass[firstMatch(match)[1]][firstMatch(match)[2] + 1]
             ELSE Undefined
    ELSE LET styleValue == getStyle(image, "float")
         IN  IF styleValue = "left" \/ styleValue = "right"
             THEN styleValue
             ELSE IF /\ getStyle(image, "margin-left") = "auto"
                     /\ getStyle(image, "margin-right") = "auto"
                  THEN "center"
                  ELSE ""

(***************************************************************************)
(* read                                                                    *)
(***************************************************************************)
read(image) ==
    [ src |-> IF getAttrib(image, "data-obvius-src") # ""
              THEN getAttrib(image, "data-obvius-src")
              ELSE getAttrib(image, "src"),
      alt |-> getAttrib(image, "alt"),
      decorative |-> isDecorative(image),
      title |-> getAttrib(image, "title"),
      width |-> getSize(image, "width"),
      height |-> getSize(image, "height"),
      class |-> getClassAttrib(image),
      style |-> normalizeCss(getStyleAttrib(image)),
      caption |-> hasCaption(image),
      hspace |-> getHspace(image),
      vspace |-> getVspace(image),
      border |-> getBorder(image),
      borderStyle |-> getStyle(image, "borderStyle"),
      alignment |-> getAlignment(image) ]

(***************************************************************************)
(* write and its steps                                                     *)
(***************************************************************************)
\* updateProp without the comparison
updatePropAlways(image, oldData, newData, name, updated) == updated

\* updated is set(image, name, newData[name])
updateProp(image, oldData, newData, name, updated) ==
    IF newData[name] # oldData[name] THEN updated ELSE image

updateImageAlignment(image, newValue) ==
    LET float == styleOf(image, "cssFloat")
        i1 == IF newValue = "left" \/ newValue = "right"
              THEN setStyleProp(image, "cssFloat", newValue)
              ELSE IF float = "left" \/ float = "right"
                   THEN setStyleProp(image, "cssFloat", Null)
                   ELSE image
        classes == filterClasses(className(i1), {"img"})
        pushed == IF newValue # Null
                  THEN IF newValue = "" \/ newValue = "none"
                       THEN Append(classes, <<"img", "default">>)
                       ELSE Append(classes, <<"img", newValue>>)
                  ELSE classes
        i2 == [i1 EXCEPT !.cls = [has |-> TRUE, v |-> pushed]]
        i3 == IF styleOf(i2, "marginLeft") = "auto"
              THEN setStyleProp(i2, "marginLeft", Null) ELSE i2
        i4 == IF styleOf(i3, "marginRight") = "auto"
              THEN setStyleProp(i3, "marginRight", Null) ELSE i3
        i5 == IF styleOf(i4, "display") = "block"
              THEN setStyleProp(i4, "display", Null) ELSE i4
    IN  IF newValue = "center"
        THEN setStyleProp(setStyleProp(setStyleProp(i2,
                 "marginLeft", "auto"), "marginRight", "auto"), "display", "block")
        ELSE i5

updateCaptionAlignment(figure, newValue) ==
    LET classes == filterClasses(className(figure), {"align", "img"})
        pushed == IF newValue = "" \/ newValue = "none"
                  THEN Append(classes, <<"img", "default">>)
                  ELSE classes \o << <<"align", newValue>>, <<"img", newValue>> >>
    IN  [figure EXCEPT !.cls = [has |-> TRUE, v |-> pushed]]

\* updateAlignment without the comparison of the alignments
updateAlignmentAlways(image, oldData, newData) ==
    IF newData.caption
    THEN IF ~oldData.caption
         THEN LET i1 == updateImageAlignment(image, Null)
              IN  [i1 EXCEPT !.fig = updateCaptionAlignment(@, newData.alignment)]
         ELSE [image EXCEPT !.fig = updateCaptionAlignment(@, newData.alignment)]
    ELSE updateImageAlignment(image, newData.alignment)

updateAlignment(image, oldData, newData) ==
    IF newData.caption
    THEN IF ~oldData.caption
         THEN LET i1 == updateImageAlignment(image, Null)
              IN  [i1 EXCEPT !.fig = updateCaptionAlignment(@, newData.alignment)]
         ELSE IF newData.alignment # oldData.alignment
              THEN [image EXCEPT !.fig = updateCaptionAlignment(@, newData.alignment)]
              ELSE image
    ELSE IF oldData.caption \/ newData.alignment # oldData.alignment
         THEN updateImageAlignment(image, newData.alignment)
         ELSE image

\* normalized(set, normalizeCss)(image, name, value), given set(image, value)
normalized(afterSet) == normalizeStyle(afterSet)

\* validateAlt without the test of decorative
validateAltIgnoringDecorative(newData) ==
    IF newData.alt = "" THEN FALSE ELSE TRUE

validateAlt(newData) ==
    IF newData.alt = "" /\ ~newData.decorative THEN FALSE ELSE TRUE

\* the one element of a singleton set; { f(x) : x \in {e} } evaluates e once
only(S) == CHOOSE x \in S : TRUE

\* alt written like the other attributes, only when it differs
writeAltIfChanged(image, oldData, newData) ==
    updateProp(image, oldData, newData, "alt", setAttrib(image, "alt", newData.alt))

\* "Always set alt even if data.alt is an empty string"
writeAlt(image, oldData, newData) == setAttrib(image, "alt", newData.alt)

\* the statements of write after the read, in their order
WriteSteps == << "caption", "src", "alt", "decorative", "title", "width", "height",
                 "class", "alignment", "style", "hspace", "vspace", "border",
                 "borderStyle" >>

\* one statement of write
writeStep(image, oldData, newData, step) ==
    CASE step = "caption" ->
            updateProp(image, oldData, newData, "caption", toggleCaption(image))
      [] step = "src" ->
            updateProp(image, oldData, newData, "src", setAttrib(image, "src", newData.src))
      [] step = "alt" ->
            writeAlt(image, oldData, newData)
      [] step = "decorative" ->
            updateProp(image, oldData, newData, "decorative",
                       setAttrib(image, "decorative", newData.decorative))
      [] step = "title" ->
            updateProp(image, oldData, newData, "title",
                       setAttrib(image, "title", newData.title))
      [] step = "width" ->
            updateProp(image, oldData, newData, "width",
                       setSize(image, "width", newData.width))
      [] step = "height" ->
            updateProp(image, oldData, newData, "height",
                       setSize(image, "height", newData.height))
      [] step = "class" ->
            updateProp(image, oldData, newData, "class",
                       setAttrib(image, "class", newData.class))
      [] step = "alignment" ->
            updateAlignment(image, oldData, newData)
      [] step = "style" ->
            updateProp(image, oldData, newData, "style",
                       normalized(setAttrib(image, "style", newData.style)))
      [] step = "hspace" ->
            updateProp(image, oldData, newData, "hspace",
                       normalized(setHspace(image, newData.hspace)))
      [] step = "vspace" ->
            updateProp(image, oldData, newData, "vspace",
                       normalized(setVspace(image, newData.vspace)))
      [] step = "border" ->
            updateProp(image, oldData, newData, "border",
                       normalized(setBorder(image, newData.border)))
      [] step = "borderStyle" ->
            updateProp(image, oldData, newData, "borderStyle",
                       normalized(setBorderStyle(image, newData.borderStyle)))

\* the statements steps one after the other on image; a throw ends the call
RECURSIVE writeSteps(_, _, _, _)
writeSteps(image, oldData, newData, steps) ==
    IF steps = <<>> \/ image.err
    THEN image
    ELSE only({ writeSteps(next, oldData, newData, Tail(steps)) :
                  next \in { writeStep(image, oldData, newData, Head(steps)) } })

write(newData, image) ==
    only({ writeSteps(image, oldData, newData, WriteSteps) : oldData \in { read(image) } })

(***************************************************************************)
(* create                                                                  *)
(***************************************************************************)
\* document.createElement('img')
NewImage ==
    [ attrs |-> [a \in AttrNames |-> NoAttr], cls |-> NoClass, style |-> NoStyle,
      parent |-> "none", fig |-> NoFigure, body |-> <<>>, nextId |-> 1, err |-> FALSE ]

\* DOM.create('figure', { class: 'image' }) with the image and a new caption in it
newFigure(n) ==
    [ id |-> [kind |-> "figure", n |-> n],
      cls |-> [has |-> TRUE, v |-> << <<"image">> >>],
      kids |-> <<ImgNode, [kind |-> "figcaption", n |-> n]>>,
      parent |-> "none",
      contentEditable |-> "false" ]

\* create without the second alignment step
createStepNoRealign(image, data, step) ==
    CASE step = "write" -> write([data EXCEPT !.caption = FALSE], image)
      [] step = "alt" -> setAttrib(image, "alt", data.alt)
      [] step = "figure" ->
            [image EXCEPT !.parent = "figure", !.fig = newFigure(image.nextId),
                          !.nextId = @ + 1]
      [] step = "alignment" -> image

\* one statement of create
createStep(image, data, step) ==
    CASE step = "write" -> write([data EXCEPT !.caption = FALSE], image)
      [] step = "alt" -> setAttrib(image, "alt", data.alt)
      [] step = "figure" ->
            [image EXCEPT !.parent = "figure", !.fig = newFigure(image.nextId),
                          !.nextId = @ + 1]
      [] step = "alignment" ->
            updateAlignment(image, [read(image) EXCEPT !.caption = FALSE], data)

RECURSIVE createSteps(_, _, _)
createSteps(image, data, steps) ==
    IF steps = <<>>
    THEN image
    ELSE only({ createSteps(next, data, Tail(steps)) :
                  next \in { createStep(image, data, Head(steps)) } })

\* [tree, node]: the DOM around the new image and the node that create returns
create(data) ==
    IF data.caption
    THEN only({ [tree |-> image, node |-> image.fig.id] :
                  image \in { createSteps(NewImage, data,
                                          <<"write", "alt", "figure", "alignment">>) } })
    ELSE [tree |-> createSteps(NewImage, data, <<"write", "alt">>), node |-> ImgNode]

defaultData ==
    [ src |-> "", alt |-> "", decorative |-> FALSE, title |-> "", width |-> "",
      height |-> "", class |-> <<>>, style |-> EmptyCss, caption |-> FALSE,
      hspace |-> "", vspace |-> "", border |-> "", borderStyle |-> "",
      alignment |-> "" ]

(***************************************************************************)
(* Inputs: the records handed to write / create / validateAlt and the      *)
(* documents the image is found in                                         *)
(***************************************************************************)
Css(form, decls) == [form |-> form, p |-> [k \in StyleProps |->
                        IF k \in DOMAIN decls THEN decls[k] ELSE ""]]

Alignments == {"", "left", "right", "center", "none"}

Classes == { <<>>, << <<"foo">> >>, << <<"img", "left">>, <<"foo">> >> }

Styles ==
    { EmptyCss,
      Css("norm", [float |-> "right"]),
      Css("raw", [marginLeft |-> "auto", marginRight |-> "auto", display |-> "block"]),
      Css("norm", [width |-> "50px", height |-> "50px", borderWidth |-> "1px",
                   marginLeft |-> "10px", marginTop |-> "1px", marginBottom |-> "1px"]) }

\* src, alt, decorative, title, width, height
Plain ==
    { [src |-> "a.png", alt |-> "", decorative |-> FALSE, title |-> "", width |-> "", height |-> ""],
      [src |-> "a.png", alt |-> "x", decorative |-> FALSE, title |-> "t", width |-> "100", height |-> ""],
      [src |-> "b.png", alt |-> "", decorative |-> TRUE, title |-> "", width |-> "", height |-> "50"] }

\* hspace, vspace, border, borderStyle
Spacing ==
    { [hspace |-> "", vspace |-> "", border |-> "", borderStyle |-> ""],
      [hspace |-> "10", vspace |-> "", border |-> "", borderStyle |-> ""],
      [hspace |-> "10px", vspace |-> "", border |-> "", borderStyle |-> ""],
      [hspace |-> "", vspace |-> "10", border |-> "1", borderStyle |-> "solid"] }

Records ==
    { [ src |-> a.src, alt |-> a.alt, decorative |-> a.decorative, title |-> a.title,
        width |-> a.width, height |-> a.height, class |-> c, style |-> s,
        caption |-> cap, hspace |-> sp.hspace, vspace |-> sp.vspace,
        border |-> sp.border, borderStyle |-> sp.borderStyle, alignment |-> al ] :
        a \in Plain, c \in Classes, s \in Styles, cap \in BOOLEAN, sp \in Spacing,
        al \in Alignments }

\* the attributes of the images found in a document
SeedAttrs ==
    { [a \in AttrNames |-> NoAttr],
      [a \in AttrNames |->
          CASE a = "src" -> Attr("a.png") [] a = "alt" -> Attr("x")
            [] a = "title" -> Attr("t") [] a = "decorative" -> Attr("true")
            [] a = "width" -> Attr("100") [] OTHER -> NoAttr],
      [a \in AttrNames |->
          CASE a = "src" -> Attr("a.png") [] a = "data-obvius-src" -> Attr("o.png")
            [] a = "alt" -> Attr("") [] a = "decorative" -> Attr("false")
            [] a = "height" -> Attr("50") [] OTHER -> NoAttr] }

SeedClasses ==
    { NoClass,
      [has |-> TRUE, v |-> << <<"foo">>, <<"img", "left">> >>],
      [has |-> TRUE, v |-> << <<"img", "default">> >>] }

SeedStyles ==
    { NoStyle,
      [has |-> TRUE, css |-> Css("raw", [float |-> "left"])],
      [has |-> TRUE, css |-> Css("norm", [marginLeft |-> "auto", marginRight |-> "auto",
                                          display |-> "block"])],
      [has |-> TRUE, css |-> Css("norm", [marginLeft |-> "10px", marginRight |-> "10px",
                                          marginTop |-> "1px", marginBottom |-> "1px",
                                          borderStyle |-> "solid", borderWidth |-> "1px",
                                          width |-> "50px", height |-> "50px"])] }

\* the class attribute of the figures found in a document
SeedFigureClasses ==
    { [has |-> TRUE, v |-> << <<"image">> >>],
      [has |-> TRUE, v |-> << <<"image">>, <<"align", "left">>, <<"img", "left">> >>],
      [has |-> TRUE, v |-> << <<"align", "center">>, <<"image">> >>] }

OldFigure == [kind |-> "figure", n |-> 0]
OldCaption == [kind |-> "figcaption", n |-> 0]

\* an image that is a child of the container, between pre and post
Uncaptioned(attrs, cls, style, pre, post) ==
    [ attrs |-> attrs, cls |-> cls, style |-> style, parent |-> "body",
      fig |-> NoFigure, body |-> pre \o <<ImgNode>> \o post, nextId |-> 1,
      err |-> FALSE ]

\* an image in a figure; the figure is a child of the container or detached
Captioned(attrs, cls, style, figcls, kids, figparent, pre, post) ==
    [ attrs |-> attrs, cls |-> cls, style |-> style, parent |-> "figure",
      fig |-> [id |-> OldFigure, cls |-> figcls, kids |-> kids, parent |-> figparent,
               contentEditable |-> "false"],
      body |-> IF figparent = "body" THEN pre \o <<OldFigure>> \o post ELSE <<>>,
      nextId |-> 1, err |-> FALSE ]

\* an image with no parent
Detached(attrs, cls, style) ==
    [ attrs |-> attrs, cls |-> cls, style |-> style, parent |-> "none",
      fig |-> NoFigure, body |-> <<>>, nextId |-> 1, err |-> FALSE ]

NoAttrs == [a \in AttrNames |-> NoAttr]

\* every class, style and wrapper with no other attribute, and every set of
\* attributes with no class and no style
SeedLooks ==
    { <<NoAttrs, c, s>> : c \in SeedClasses, s \in SeedStyles } \cup
    { <<a, NoClass, NoStyle>> : a \in SeedAttrs }

WriteSeeds ==
    UNION { { Uncaptioned(l[1], l[2], l[3], <<>>, <<>>), Detached(l[1], l[2], l[3]) } \cup
            { Captioned(l[1], l[2], l[3], fc, <<ImgNode, OldCaption>>, "body", <<>>, <<>>) :
                fc \in SeedFigureClasses } :
            l \in SeedLooks }

(***************************************************************************)
(* Specification of write, write again, write back what was read, create   *)
(***************************************************************************)
\* the DOM at the start of a call: no exception is pending
Call(d) == [d EXCEPT !.err = FALSE]

InitWrite ==
    /\ dom \in WriteSeeds
    /\ prev = dom
    /\ first = NewImage
    /\ rec = defaultData
    /\ readData = defaultData
    /\ altValid = TRUE
    /\ created = ImgNode
    /\ pc = "init"

\* write(normalizeCss, R, image)
Write ==
    /\ pc = "init"
    /\ \E R \in Records :
        /\ dom' = write(R, Call(dom))
        /\ rec' = R
    /\ prev' = dom
    /\ pc' = "write"
    /\ UNCHANGED <<first, readData, altValid, created>>

\* the same call once more
WriteAgain ==
    /\ pc = "write"
    /\ dom' = write(rec, Call(dom))
    /\ prev' = dom
    /\ pc' = "writeAgain"
    /\ UNCHANGED <<first, rec, readData, altValid, created>>

\* write(normalizeCss, read(normalizeCss, image), image)
WriteBack ==
    /\ pc = "init"
    /\ readData' = read(dom)
    /\ rec' = read(dom)
    /\ dom' = write(read(dom), Call(dom))
    /\ prev' = dom
    /\ pc' = "writeBack"
    /\ UNCHANGED <<first, altValid, created>>

\* create(normalizeCss, R): the new image is not in the document
Create ==
    /\ pc = "init"
    /\ \E R \in Records :
        /\ dom' = create(R).tree
        /\ created' = create(R).node
        /\ rec' = R
    /\ prev' = NewImage
    /\ pc' = "create"
    /\ UNCHANGED <<first, readData, altValid>>

NextWrite == Write \/ WriteAgain \/ WriteBack \/ Create

SpecWrite == InitWrite /\ [][NextWrite]_vars

(***************************************************************************)
(* Specification of the caption toggle and of read                         *)
(***************************************************************************)
Sibling(i) == [kind |-> "p", n |-> i]

\* the siblings before and after the image, or its figure, in the container
Layouts ==
    { << [i \in 1..k |-> Sibling(i)], [i \in 1..m |-> Sibling(MaxSiblings + i)] >> :
        k \in 0..MaxSiblings, m \in 0..MaxSiblings }

FigureKids == { <<ImgNode, OldCaption>>, <<OldCaption, ImgNode>> }

ToggleSeeds ==
    UNION { { Uncaptioned(l[1], l[2], l[3], lay[1], lay[2]),
              Detached(l[1], l[2], l[3]) } \cup
            { Captioned(l[1], l[2], l[3], fc, kids, fp, lay[1], lay[2]) :
                fc \in SeedFigureClasses, kids \in FigureKids, fp \in {"body", "none"} } :
            l \in SeedLooks, lay \in Layouts }

InitToggle ==
    /\ dom \in ToggleSeeds
    /\ prev = dom
    /\ first = dom
    /\ rec = defaultData
    /\ readData = defaultData
    /\ altValid = TRUE
    /\ created = ImgNode
    /\ pc = "init"

\* toggleCaption(image), and a second time when the first call returned
ToggleCaption ==
    /\ \/ pc = "init" /\ pc' = "toggle1"
       \/ pc = "toggle1" /\ ~dom.err /\ pc' = "toggle2"
    /\ dom' = toggleCaption(Call(dom))
    /\ prev' = dom
    /\ UNCHANGED <<first, rec, readData, altValid, created>>

\* read(normalizeCss, image)
Read ==
    /\ pc \in {"init", "toggle1", "toggle2"}
    /\ ~dom.err
    /\ readData' = read(dom)
    /\ pc' = "read"
    /\ prev' = dom
    /\ UNCHANGED <<dom, first, rec, altValid, created>>

NextToggle == ToggleCaption \/ Read

SpecToggle == InitToggle /\ [][NextToggle]_vars

(***************************************************************************)
(* Specification of validateAlt                                            *)
(***************************************************************************)
ValidateRecords == Records \cup { [r EXCEPT !.decorative = TRUE] : r \in Records }

InitValidate ==
    /\ dom \in { Uncaptioned(a, NoClass, NoStyle, <<>>, <<>>) : a \in SeedAttrs }
    /\ prev = dom
    /\ first = NewImage
    /\ rec = defaultData
    /\ readData = defaultData
    /\ altValid = TRUE
    /\ created = ImgNode
    /\ pc = "init"

\* validateAlt(R)
ValidateAlt ==
    /\ pc = "init"
    /\ \E R \in ValidateRecords :
        /\ altValid' = validateAlt(R)
        /\ rec' = R
    /\ prev' = dom
    /\ pc' = "validateAlt"
    /\ UNCHANGED <<dom, first, readData, created>>

NextValidate == ValidateAlt

SpecValidate == InitValidate /\ [][NextValidate]_vars


(***************************************************************************)
(* Properties of write and create                                          *)
(***************************************************************************)
Fields == { "src", "alt", "decorative", "title", "width", "height", "class", "style",
            "caption", "hspace", "vspace", "border", "borderStyle", "alignment" }

FreshImage == Detached(NoAttrs, NoClass, NoStyle)

\* the image has a class img-*
hasImgClass(image) == \E k \in 1..Len(className(image)) :
    Len(className(image)[k]) >= 2 /\ className(image)[k][1] = "img"

\* the alignment is on the image itself
alignedItself(image) ==
    \/ styleOf(image, "float") \in {"left", "right"}
    \/ styleOf(image, "marginLeft") = "auto"
    \/ styleOf(image, "marginRight") = "auto"
    \/ hasImgClass(image)

\* the class list of the wrapper has the token
figureHasClass(image, token) ==
    \E k \in 1..Len(className(image.fig)) : className(image.fig)[k] = token

\* C1: a second write of the same record leaves the image, its wrapper and its
\* place in the document as the first write left them
C1_WriteTwiceSameAsOnce == pc = "writeAgain" => dom = prev

C6_AltAlwaysWritten ==
    (pc \in {"write", "writeAgain", "writeBack", "create"} /\ ~dom.err) =>
        dom.attrs["alt"] = Attr(rec.alt)

\* C8: write with caption = true and an alignment A on an uncaptioned image that
\* has a parent leaves the image in a figure with the classes align-A and img-A,
\* and no alignment on the image itself
C8_CaptionAddedByWrite ==
    (/\ pc = "write" /\ prev.parent = "body" /\ rec.caption
     /\ rec.alignment \in {"left", "center", "right"}) =>
        /\ hasCaption(dom)
        /\ figureHasClass(dom, <<"align", rec.alignment>>)
        /\ figureHasClass(dom, <<"img", rec.alignment>>)
        /\ ~alignedItself(dom)

\* C9: a field of the record that equals what read gave before the write reads
\* the same after the write (alt aside)
C9_OnlyDifferingFieldsChange ==
    pc = "write" =>
        \A f \in Fields \ {"alt"} :
            rec[f] = read(prev)[f] => read(dom)[f] = read(prev)[f]

\* C10: writing back the record just read changes nothing but the alt attribute,
\* which is set to the value read
C10_WriteBackIsNoOp ==
    pc = "writeBack" =>
        /\ [dom EXCEPT !.attrs["alt"] = prev.attrs["alt"]] = prev
        /\ dom.attrs["alt"] = Attr(rec.alt)

\* C4: create with caption = true returns a figure holding the image and a
\* caption; the alignment is on the figure and not on the image
C4_CreateCaptioned ==
    (pc = "create" /\ rec.caption) =>
        /\ created = dom.fig.id /\ created.kind = "figure"
        /\ hasCaption(dom)
        /\ dom.fig.kids[1] = ImgNode /\ dom.fig.kids[2].kind = "figcaption"
        /\ rec.alignment \in {"left", "center", "right"} =>
              /\ figureHasClass(dom, <<"align", rec.alignment>>)
              /\ figureHasClass(dom, <<"img", rec.alignment>>)
        /\ ~alignedItself(dom)
        /\ styleOf(dom, "display") # "block"

\* C2 as amended: src, alt, decorative, title and caption are always read back
\* as written; a record with no style text and no alignment is read back in every
\* other field too (hspace, vspace and border given as '' or as plain numbers),
\* except that style reads back the declarations that stand for its hspace,
\* vspace, border and borderStyle
PlainNumbers == { q[1] : q \in PxPairs }

Shares(f) ==
    CASE f \in {"src", "decorative", "title", "caption", "alt"} -> {}
      [] f = "class" -> {"alignment", "caption"}
      [] f \in {"width", "height", "vspace", "border", "borderStyle"} -> {"style"}
      [] f = "hspace" -> {"style", "alignment", "caption"}
      [] f = "alignment" -> {"style", "hspace", "caption"}
      [] f = "style" -> {"width", "height", "hspace", "vspace", "border", "borderStyle",
                         "alignment", "caption"}

\* C9 as amended: a field of the record that equals what read gave before the
\* write reads the same after it, provided the fields that share its attribute or
\* its style declarations are unchanged as well (alt aside)
C9_UnchangedFieldsWithTheirStorage ==
    pc = "write" =>
        \A f \in Fields \ {"alt"} :
            (\A g \in {f} \cup Shares(f) : rec[g] = read(prev)[g])
                => read(dom)[f] = read(prev)[f]

C9_Witness ==
    /\ pc = "write" /\ ~dom.err
    /\ rec.alignment # read(prev).alignment /\ rec.class = read(prev).class
    /\ rec.caption = read(prev).caption
    /\ rec.hspace # read(prev).hspace /\ rec.style = read(prev).style
    /\ rec.width = read(prev).width /\ read(dom).width = rec.width
    /\ rec.title = read(prev).title /\ read(dom).title = rec.title
    /\ prev.attrs["title"].has
    /\ read(dom).class # read(prev).class

C6_Witness ==
    /\ pc = "write" /\ ~dom.err
    /\ ~prev.attrs["alt"].has /\ rec.alt = ""
    /\ dom.attrs["alt"] = Attr("")

C10_Witness ==
    /\ pc = "writeBack"
    /\ hasCaption(prev) /\ rec.alignment = "left" /\ hasImgClass(prev)
    /\ prev.style.has /\ ~prev.attrs["alt"].has
    /\ dom.attrs["alt"] = Attr("") /\ dom.fig = prev.fig

C4_Witness ==
    /\ pc = "create" /\ rec.caption /\ rec.alignment = "center"
    /\ rec.style.p["float"] = "right" /\ rec.class # <<>> /\ rec.class[1][1] = "img"
    /\ figureHasClass(dom, <<"align", "center">>)
    /\ figureHasClass(dom, <<"img", "center">>)
    /\ ~hasImgClass(dom)

(***************************************************************************)
(* Properties of the caption toggle and of read                            *)
(***************************************************************************)
\* C3: two toggles give back hasCaption and put the image where it was among
\* the children of the parent it had
C3_ToggleTwiceRestores ==
    (pc = "toggle2" /\ ~dom.err /\ first.parent # "none") =>
        /\ hasCaption(dom) = hasCaption(first)
        /\ dom.parent = first.parent
        /\ dom.body = first.body
        /\ dom.fig.id = first.fig.id
        /\ dom.fig.kids = first.fig.kids

\* seq with node b in the place of node a
replaceNode(seq, a, b) == [i \in 1..Len(seq) |-> IF seq[i] = a THEN b ELSE seq[i]]

\* C3 as amended: two toggles give back hasCaption; an image that started without
\* caption is back where it was among the children of its parent; an image that
\* started in a figure ends as the first child of a new figure, followed by a new
\* caption, and the new figure stands where the old one stood; a first toggle of
\* an image whose parent is in the container returns
C3_ToggleTwiceRestoresPlace ==
    /\ (pc = "toggle1" /\ (first.parent = "body" \/ first.fig.parent = "body")) => ~dom.err
    /\ (pc = "toggle2" /\ ~dom.err) =>
        /\ hasCaption(dom) = hasCaption(first)
        /\ first.parent = "body" =>
              /\ dom.parent = "body"
              /\ dom.body = first.body
        /\ first.parent = "figure" =>
              /\ dom.fig.id # first.fig.id
              /\ dom.body = replaceNode(first.body, first.fig.id, dom.fig.id)
              /\ Len(dom.fig.kids) = 2
              /\ dom.fig.kids[1] = ImgNode
              /\ dom.fig.kids[2].kind = "figcaption"
              /\ dom.fig.kids[2] # OldCaption

C3_Witness ==
    /\ pc = "toggle2" /\ ~dom.err
    /\ first.parent = "figure" /\ hasCaption(dom)
    /\ first.fig.kids = <<OldCaption, ImgNode>>
    /\ Len(first.body) = 3 /\ first.body[2] = OldFigure
    /\ dom.body[2] = dom.fig.id

SomeStringFields == { "src", "alt", "title", "width", "height", "hspace", "vspace",
                      "border", "borderStyle", "alignment" }

\* C5: every field of the record that read returns is defined; the alignment of
\* a captioned image whose figure has no class align-left|center|right is ''
C5_ReadFieldsDefined ==
    pc = "read" =>
        /\ \A f \in SomeStringFields : readData[f] # Undefined
        /\ readData.decorative \in BOOLEAN /\ readData.caption \in BOOLEAN
        /\ (hasCaption(dom) /\ alignMatches(getClassAttrib(dom.fig)) = {})
              => readData.alignment = ""

(***************************************************************************)
(* Properties of validateAlt                                               *)
(***************************************************************************)
\* C7: validateAlt is false exactly for an empty alt that is not decorative; it
\* changes nothing and throws nothing
C7_ValidateAlt ==
    pc = "validateAlt" =>
        /\ altValid = ~(rec.alt = "" /\ ~rec.decorative)
        /\ dom = prev
        /\ ~dom.err

C7_Witness ==
    /\ pc = "validateAlt" /\ rec.alt = "" /\ ~rec.decorative /\ altValid = FALSE

====
